---------------------------- MODULE Spec2Model ----------------------------
(***************************************************************************)
(* HC-15 serial radio driver (class HC15, lora_class.hpp) and the tasks    *)
(* that use it (setup(), main.cpp part of builtin_led.cpp).                *)
(*                                                                         *)
(* Arduino Strings are TLA+ strings; "\r" is CR and "\n" is LF.            *)
(* Time is in milliseconds: every timed wait of the code keeps the value   *)
(* of millis() - <its start>, and Tick advances all of them together.      *)
(***************************************************************************)
EXTENDS Integers, Sequences, FiniteSets, TLC

VARIABLES
    started,     \* "constructed" | "ready" (begin() returned true) | "failed"
    serial_,     \* HC15::serial_ is non-null
    sem,         \* hc15_buzy_semaphore_: 1 = available, 0 = taken / empty
    key_pin,     \* level driven on key_pin_ (mode select)
    sta_pin,     \* level the module drives on sta_pin_ (LOW = busy)
    uart_rx,     \* bytes received by the UART and not yet read
    uart_tx,     \* the bytes the latest step wrote to the UART ("" if none)
    readBuffer,  \* HC15::readBuffer
    fed,         \* every byte appended to readBuffer so far
    printed,     \* lines readLine() has returned (Serial.println(line))
    pc,          \* where each unit stands in its code
    op,          \* the operation each caller runs (or ran last)
    arg,         \* its argument
    line,        \* local `line` of _expectLine / _expectOK
    wres,        \* local result of write() / writeCommand()
    busy,        \* what the unit's last isBuzy() returned
    eol,         \* the unit's last _expectLine ended at a CR or LF (its break)
    rtn,         \* value the last call returned
    elapsed,     \* millis() - time1 / start of the unit's current timed wait
    elapsed2,    \* millis() - t0 of getBasicParams
    linesGot,    \* local linesGot of getBasicParams
    info,        \* local info of getBasicParams
    holds,       \* successful xSemaphoreTake minus xSemaphoreGive, per unit
    ncalls,      \* command calls made so far
    nemit,       \* chunks the module has sent so far
    sent         \* the lines the module has sent in answer to "AT+RX"

vars == <<started, serial_, sem, key_pin, sta_pin, uart_rx, uart_tx,
          readBuffer, fed, printed, pc, op, arg, line, wres, busy, eol, rtn,
          elapsed, elapsed2, linesGot, info, holds, ncalls, nemit, sent>>

-----------------------------------------------------------------------------
(* Bounds of the model *)

MaxCalls == 2
MaxEmit == 1
MaxRx == 24
MaxBufLen == 4
MaxReads == 5

(* Clock steps, in ms *)
TickBig == 5000
TickSmall == 2500

-----------------------------------------------------------------------------
(* Units *)

Callers == {"c1", "c2"}
Monitor == "mon"
Reader == "rd"
Units == Callers \cup {Monitor, Reader}

-----------------------------------------------------------------------------
(* Program constants, ms *)

LOCK_WAIT_MS == 10000
MONITOR_LOCK_WAIT_MS == 5000
READER_LOCK_WAIT_MS == 50
timeout_ == 5000
EXPECT_LINE_DEFAULT_MS == 5000
SET_DEFAULT_TIMEOUT_MS == 5000
BASIC_PARAMS_TIMEOUT_MS == 3000
BASIC_PARAMS_LINE_MS == 500
BASIC_PARAMS_LINES == 4

CR == "\r"
LF == "\n"
CRLF == "\r\n"

-----------------------------------------------------------------------------
(* Arduino String operations *)

CharAt(s, i) == SubSeq(s, i + 1, i + 1)

\* String::substring(from): empty when from is at or past the end
Substring(s, from) == IF from >= Len(s) THEN "" ELSE SubSeq(s, from + 1, Len(s))

\* String::substring(from, to)
Substring2(s, from, to) == IF from >= Len(s) \/ from >= to THEN ""
                           ELSE SubSeq(s, from + 1, IF to > Len(s) THEN Len(s) ELSE to)

StartsWith(s, p) == Len(p) <= Len(s) /\ SubSeq(s, 1, Len(p)) = p

\* String::indexOf(c): 0-based index of the first c, or -1
IndexOf(s, c) ==
    LET hits == {i \in 0..(Len(s) - 1) : CharAt(s, i) = c}
    IN IF hits = {} THEN -1 ELSE CHOOSE i \in hits : \A j \in hits : i <= j

Digits == "0123456789"
DigitChar(d) == CharAt(Digits, d)
IsDigit(c) == \E d \in 0..9 : DigitChar(d) = c
DigitVal(c) == CHOOSE d \in 0..9 : DigitChar(d) = c

\* String(n) for an unsigned number
RECURSIVE StringOf(_)
StringOf(n) == IF n < 10 THEN DigitChar(n)
               ELSE StringOf(n \div 10) \o DigitChar(n % 10)

\* value of the longest prefix of digits of s starting at 0-based i (acc so far)
RECURSIVE DigitsValue(_, _, _)
DigitsValue(s, i, acc) ==
    IF i < Len(s) /\ IsDigit(CharAt(s, i))
    THEN DigitsValue(s, i + 1, acc * 10 + DigitVal(CharAt(s, i)))
    ELSE acc

RECURSIVE SkipSpaces(_, _)
SkipSpaces(s, i) == IF i < Len(s) /\ CharAt(s, i) = " " THEN SkipSpaces(s, i + 1) ELSE i

\* String::toInt(): atol - leading blanks, optional sign, digits; 0 if none
ToInt(s) ==
    LET i == SkipSpaces(s, 0)
    IN IF i < Len(s) /\ CharAt(s, i) = "-" THEN 0 - DigitsValue(s, i + 1, 0)
       ELSE IF i < Len(s) /\ CharAt(s, i) = "+" THEN DigitsValue(s, i + 1, 0)
       ELSE DigitsValue(s, i, 0)

\* String::replace(find, "") : every occurrence removed, left to right
RECURSIVE RemoveAll(_, _)
RemoveAll(s, find) ==
    IF Len(s) < Len(find) \/ Len(find) = 0 THEN s
    ELSE IF StartsWith(s, find) THEN RemoveAll(Substring(s, Len(find)), find)
    ELSE SubSeq(s, 1, 1) \o RemoveAll(Substring(s, 1), find)

ToUint8(n) == n % 256
ToInt8(n) == LET m == n % 256 IN IF m >= 128 THEN m - 256 ELSE m
\* uint32_t of a long: n + 2^32 for a negative n (TLC's integers are 32-bit and
\* stop the run on that overflow rather than give a wrong value)
ToUint32(n) == IF n >= 0 THEN n ELSE n + 2147483647 + 2147483647 + 2

-----------------------------------------------------------------------------
(* Pure functions of the driver *)

\* an encoder that pads every value with a single zero
channelConvertString_OneZero(channel) ==
    IF channel >= 1 /\ channel <= 50 THEN "0" \o StringOf(channel) ELSE "028"

\* HC15::channelConvertString(uint8_t channel)
channelConvertString(channel) ==
    IF channel >= 1 /\ channel < 10 THEN "00" \o StringOf(channel)
    ELSE IF channel >= 10 /\ channel <= 50 THEN "0" \o StringOf(channel)
    ELSE "028"

\* a range check that forgets the lower end
ValidChannel_NoLowerBound(channel) == channel <= 50

\* the range checks of setChannel and setSpeed
ValidChannel(channel) == channel >= 1 /\ channel <= 50
ValidSpeed(speed) == speed >= 1 /\ speed <= 8

\* the enumerated checks of setParityBit and setStopBit
ValidParity(parity_bit) == parity_bit = "1" \/ parity_bit = "0" \/ parity_bit = "2"
ValidStopBit(stop_bit) == stop_bit = "1" \/ stop_bit = "2" \/ stop_bit = "3"

\* index readLine() cuts at: the first LF, and only without any LF the first CR
ReadLineIdx(buf) == IF IndexOf(buf, LF) = -1 THEN IndexOf(buf, CR) ELSE IndexOf(buf, LF)

\* a readLine() that removes one character more than the line and its delimiter
ReadLine_DropsNext(buf) ==
    LET idx == ReadLineIdx(buf)
    IN IF idx # -1
       THEN [line |-> Substring2(buf, 0, idx), rest |-> Substring(buf, idx + 2)]
       ELSE IF Len(buf) > 0
       THEN [line |-> buf, rest |-> ""]
       ELSE [line |-> "", rest |-> ""]

\* HC15::readLine(): the line returned and the buffer left
ReadLine(buf) ==
    LET idx == ReadLineIdx(buf)
    IN IF idx # -1
       THEN [line |-> Substring2(buf, 0, idx), rest |-> Substring(buf, idx + 1)]
       ELSE IF Len(buf) > 0
       THEN [line |-> buf, rest |-> ""]
       ELSE [line |-> "", rest |-> ""]

-----------------------------------------------------------------------------
(* The command operations *)

GetOps == {"getBaudRate", "getParityBit", "getStopBit", "getChannel", "getSpeed"}
SetOps == {"setParityBit", "setStopBit", "setChannel", "setSpeed"}
LineOps == GetOps \cup SetOps
OkOps == {"test", "resetDefault"}
Ops == LineOps \cup OkOps \cup {"getBasicParams"}

NoArg == [n |-> 0, s |-> ""]
NumArg(n) == [n |-> n, s |-> ""]
StrArg(s) == [n |-> 0, s |-> s]

\* the guard each set operation opens with
ValidArg(o, a) ==
    CASE o = "setChannel" -> ValidChannel(a.n)
      [] o = "setSpeed" -> ValidSpeed(a.n)
      [] o = "setParityBit" -> ValidParity(a.s)
      [] o = "setStopBit" -> ValidStopBit(a.s)
      [] OTHER -> TRUE

\* what a set operation returns when its guard fails
InvalidText(o) ==
    CASE o = "setParityBit" -> "INVALID PARITY BIT"
      [] o = "setStopBit" -> "INVALID STOP BIT"
      [] OTHER -> "INVALID CHANNEL"

\* the bytes each operation hands to writeCommand
CommandText(o, a) ==
    CASE o = "test" -> "AT\r\n"
      [] o = "resetDefault" -> "AT+DEFAULT\r\n"
      [] o = "getBaudRate" -> "AT+B?\r\n"
      [] o = "getParityBit" -> "AT+PARITYBIT?\r\n"
      [] o = "setParityBit" -> "AT+PARITYBIT" \o a.s \o "\r\n"
      [] o = "getStopBit" -> "AT+STOPBIT?\r\n"
      [] o = "setStopBit" -> "AT+STOPBIT" \o a.s \o "\r\n"
      [] o = "getChannel" -> "AT+C?\r\n"
      [] o = "setChannel" -> "AT+C" \o channelConvertString(a.n) \o "\r\n"
      [] o = "getSpeed" -> "AT+S?\r\n"
      [] o = "setSpeed" -> "AT+S" \o channelConvertString(a.n) \o "\r\n"
      [] o = "getBasicParams" -> "AT+RX\r\n"

\* the prefix each get/set operation tests the reply line for
ExpectPrefix(o) ==
    CASE o \in {"getBaudRate"} -> "OK+B:"
      [] o \in {"getParityBit", "setParityBit"} -> "OK+PARITYBIT"
      [] o \in {"getStopBit", "setStopBit"} -> "OK+STOPBIT"
      [] o \in {"getChannel", "setChannel"} -> "OK+C:"
      [] o \in {"getSpeed", "setSpeed"} -> "OK+S:"

\* a cut one character early
ValueFrom_OneEarly(o) == 4

\* the index each get/set operation cuts the reply line at
ValueFrom(o) ==
    CASE o = "getParityBit" -> 15
      [] o = "setParityBit" -> 1
      [] o \in {"getStopBit", "setStopBit"} -> 10
      [] OTHER -> 5

\* the word _expectOK is called with
ExpectWord(o) == IF o = "test" THEN "OK" ELSE "OK+DEFAULT"

\* the timeout _expectLine is called with
ExpectLineMs(o) ==
    CASE o \in SetOps \cup {"getBaudRate"} -> SET_DEFAULT_TIMEOUT_MS
      [] o = "getBasicParams" -> BASIC_PARAMS_LINE_MS
      [] OTHER -> EXPECT_LINE_DEFAULT_MS

\* return values
NoRtn == [kind |-> "none", str |-> "", ok |-> FALSE]
StrRtn(s) == [kind |-> "str", str |-> s, ok |-> FALSE]
BoolRtn(b) == [kind |-> "bool", str |-> "", ok |-> b]
ParamsRtn == [kind |-> "params", str |-> "", ok |-> FALSE]

LockTimeoutText == "ERROR SEMAPHORE: TIMEOUT"
ErrorResponseText == "ERROR RESPONSE"
WriteFailedText == "WRITE COMMAND FAILED"

\* a lock timeout reported as a failed write
LockTimeoutRtn_AsWriteFailure(o) ==
    IF o = "resetDefault" THEN BoolRtn(FALSE)
    ELSE IF o = "getBasicParams" THEN ParamsRtn
    ELSE StrRtn(WriteFailedText)

\* what an operation returns when xSemaphoreTake fails
LockTimeoutRtn(o) ==
    IF o = "resetDefault" THEN BoolRtn(FALSE)
    ELSE IF o = "getBasicParams" THEN ParamsRtn
    ELSE StrRtn(LockTimeoutText)

\* what a get/set operation returns for the line _expectLine gave it
LineRtn(o, l) ==
    IF StartsWith(l, ExpectPrefix(o)) THEN StrRtn(Substring(l, ValueFrom(o)))
    ELSE StrRtn(ErrorResponseText)

ZeroInfo == [baud |-> 0, chan |-> 0, airSpd |-> 0, txPwr |-> 0]

\* getBasicParams: the dispatch of one non-empty line on its prefix
Dispatch(i, l) ==
    IF StartsWith(l, "OK+B:") THEN [i EXCEPT !.baud = ToUint32(ToInt(Substring(l, 5)))]
    ELSE IF StartsWith(l, "OK+C:") THEN [i EXCEPT !.chan = ToUint8(ToInt(Substring(l, 5)))]
    ELSE IF StartsWith(l, "OK+S:") THEN [i EXCEPT !.airSpd = ToUint8(ToInt(Substring(l, 5)))]
    ELSE IF StartsWith(l, "OK+P:")
    THEN [i EXCEPT !.txPwr = ToInt8(ToInt(RemoveAll(Substring(l, 5), "dBm")))]
    ELSE i

-----------------------------------------------------------------------------
(* State after construction *)

Init ==
    /\ started = "constructed"
    /\ serial_ \in BOOLEAN
    /\ sem = 0
    /\ key_pin = "UNSET"
    /\ sta_pin = "HIGH"
    /\ uart_rx = ""
    /\ uart_tx = ""
    /\ readBuffer = ""
    /\ fed = ""
    /\ printed = <<>>
    /\ pc = [u \in Units |-> IF u \in Callers THEN "idle" ELSE "off"]
    /\ op = [u \in Units |-> "none"]
    /\ arg = [u \in Units |-> NoArg]
    /\ line = [u \in Units |-> ""]
    /\ wres = [u \in Units |-> 0]
    /\ busy = [u \in Units |-> FALSE]
    /\ eol = [u \in Units |-> FALSE]
    /\ rtn = [u \in Units |-> NoRtn]
    /\ elapsed = [u \in Units |-> 0]
    /\ elapsed2 = [u \in Units |-> 0]
    /\ linesGot = [u \in Units |-> 0]
    /\ info = [u \in Units |-> ZeroInfo]
    /\ holds = [u \in Units |-> 0]
    /\ ncalls = 0
    /\ nemit = 0
    /\ sent = <<>>

-----------------------------------------------------------------------------
(* Semaphore and pins *)

\* a take that never blocks
CanTake_AlwaysGrants(s) == TRUE

\* xSemaphoreTake succeeds only on an available semaphore
CanTake(s) == s = 1

\* xSemaphoreGive on a binary semaphore: available afterwards
AfterGive(s) == 1

\* isBuzy(): LOW means busy
isBuzy == sta_pin = "LOW"

\* the wait each unit passes to xSemaphoreTake
LockWaitMs(u) ==
    IF u = Monitor THEN MONITOR_LOCK_WAIT_MS
    ELSE IF u = Reader THEN READER_LOCK_WAIT_MS
    ELSE LOCK_WAIT_MS

\* where a unit continues once it has the semaphore
AfterTake(u) == IF u = Monitor THEN "drain" ELSE IF u = Reader THEN "read" ELSE "keyLow"

\* a task that goes on into its guarded block without the semaphore
AfterTakeTimeout_Enters(u) == AfterTake(u)

\* where a task continues when xSemaphoreTake fails: it skips the guarded
\* block, delays and takes again
AfterTakeTimeout(u) == "take"

-----------------------------------------------------------------------------
(* begin() and the task creation of setup() *)

Begin ==
    /\ started = "constructed"
    /\ IF serial_
       THEN /\ started' = "ready"
            /\ key_pin' = "HIGH"
            /\ sem' = AfterGive(sem)
            /\ pc' = [u \in Units |-> IF u \in Callers THEN "idle" ELSE "take"]
       ELSE /\ started' = "failed"
            /\ UNCHANGED <<key_pin, sem, pc>>
    /\ UNCHANGED <<serial_, sta_pin, uart_rx, readBuffer, fed, printed, op, arg,
                   line, wres, busy, eol, rtn, elapsed, elapsed2, linesGot, info, holds,
                   ncalls, nemit>>
    /\ uart_tx' = ""
    /\ UNCHANGED sent

-----------------------------------------------------------------------------
(* A caller enters a command operation *)

Call(u, o, a) ==
    /\ started \in {"ready", "failed"}
    /\ pc[u] = "idle"
    /\ ncalls < MaxCalls
    /\ ncalls' = ncalls + 1
    /\ op' = [op EXCEPT ![u] = o]
    /\ arg' = [arg EXCEPT ![u] = a]
    /\ line' = [line EXCEPT ![u] = ""]
    /\ wres' = [wres EXCEPT ![u] = 0]
    /\ linesGot' = [linesGot EXCEPT ![u] = 0]
    /\ info' = [info EXCEPT ![u] = ZeroInfo]
    /\ elapsed' = [elapsed EXCEPT ![u] = 0]
    /\ elapsed2' = [elapsed2 EXCEPT ![u] = 0]
    /\ IF ~ValidArg(o, a)
       THEN /\ rtn' = [rtn EXCEPT ![u] = StrRtn(InvalidText(o))]
            /\ pc' = [pc EXCEPT ![u] = "done"]
       ELSE /\ rtn' = [rtn EXCEPT ![u] = NoRtn]
            /\ pc' = [pc EXCEPT ![u] = IF o = "test" THEN "keyLow" ELSE "take"]
    /\ UNCHANGED <<started, serial_, sem, key_pin, sta_pin, uart_rx, readBuffer, fed, printed, busy, eol, holds, nemit>>
    /\ uart_tx' = ""
    /\ UNCHANGED sent

\* the caller has its result; the locals of the call are gone
Return(u) ==
    /\ pc[u] = "done"
    /\ pc' = [pc EXCEPT ![u] = "idle"]
    /\ op' = [op EXCEPT ![u] = "none"]
    /\ arg' = [arg EXCEPT ![u] = NoArg]
    /\ line' = [line EXCEPT ![u] = ""]
    /\ wres' = [wres EXCEPT ![u] = 0]
    /\ busy' = [busy EXCEPT ![u] = FALSE]
    /\ eol' = [eol EXCEPT ![u] = FALSE]
    /\ rtn' = [rtn EXCEPT ![u] = NoRtn]
    /\ elapsed' = [elapsed EXCEPT ![u] = 0]
    /\ elapsed2' = [elapsed2 EXCEPT ![u] = 0]
    /\ linesGot' = [linesGot EXCEPT ![u] = 0]
    /\ info' = [info EXCEPT ![u] = ZeroInfo]
    /\ UNCHANGED <<started, serial_, sem, key_pin, sta_pin, uart_rx, readBuffer, fed, printed, holds, ncalls, nemit>>
    /\ uart_tx' = ""
    /\ UNCHANGED sent

\* xSemaphoreTake returns pdTRUE
Take(u) ==
    /\ pc[u] = "take"
    /\ CanTake(sem)
    /\ sem' = 0
    /\ holds' = [holds EXCEPT ![u] = @ + 1]
    /\ pc' = [pc EXCEPT ![u] = AfterTake(u)]
    /\ elapsed' = [elapsed EXCEPT ![u] = 0]
    /\ UNCHANGED <<started, serial_, key_pin, sta_pin, uart_rx, readBuffer, fed,
                   printed, op, arg, line, wres, busy, eol, rtn, elapsed2, linesGot, info,
                   ncalls, nemit>>
    /\ uart_tx' = ""
    /\ UNCHANGED sent

\* xSemaphoreTake returns pdFALSE: the wait has elapsed
TakeTimeout(u) ==
    /\ pc[u] = "take"
    /\ sem = 0
    /\ elapsed[u] >= LockWaitMs(u)
    /\ elapsed' = [elapsed EXCEPT ![u] = 0]
    /\ IF u \in Callers
       THEN /\ rtn' = [rtn EXCEPT ![u] = LockTimeoutRtn(op[u])]
            /\ pc' = [pc EXCEPT ![u] = "done"]
       ELSE /\ pc' = [pc EXCEPT ![u] = AfterTakeTimeout(u)]
            /\ UNCHANGED rtn
    /\ UNCHANGED <<started, serial_, sem, key_pin, sta_pin, uart_rx, readBuffer, fed, printed, op, arg, line, wres, busy, eol, elapsed2, linesGot,
                   info, holds, ncalls, nemit>>
    /\ uart_tx' = ""
    /\ UNCHANGED sent

\* xSemaphoreGive, and what follows it (the return, or the task's delay)
Give(u) ==
    /\ pc[u] = "give"
    /\ sem' = AfterGive(sem)
    /\ holds' = [holds EXCEPT ![u] = @ - 1]
    /\ pc' = [pc EXCEPT ![u] = IF u \in Callers THEN "done" ELSE "take"]
    /\ elapsed' = [elapsed EXCEPT ![u] = 0]
    /\ UNCHANGED <<started, serial_, key_pin, sta_pin, uart_rx, readBuffer, fed,
                   printed, op, arg, line, wres, busy, eol, rtn, elapsed2, linesGot, info,
                   ncalls, nemit>>
    /\ uart_tx' = ""
    /\ UNCHANGED sent

-----------------------------------------------------------------------------
(* writeCommand() and write() *)

\* writeCommand: digitalWrite(key_pin_, LOW); write: time1 = millis()
KeyLow(u) ==
    /\ pc[u] = "keyLow"
    /\ key_pin' = "LOW"
    /\ pc' = [pc EXCEPT ![u] = "busyWait"]
    /\ elapsed' = [elapsed EXCEPT ![u] = 0]
    /\ UNCHANGED <<started, serial_, sem, sta_pin, uart_rx, readBuffer, fed,
                   printed, op, arg, line, wres, busy, eol, rtn, elapsed2, linesGot, info,
                   holds, ncalls, nemit>>
    /\ uart_tx' = ""
    /\ UNCHANGED sent

\* a wait loop without its deadline
KeepsWaiting_NoDeadline(u) == ~isBuzy

\* the condition that keeps write() in its wait loop
KeepsWaiting(u) == elapsed[u] < timeout_ /\ ~isBuzy

\* write: the loop `while (millis() - time1 < timeout_ms && !isBuzy());` ends
BusyWaitExit(u) ==
    /\ pc[u] = "busyWait"
    /\ ~KeepsWaiting(u)
    /\ pc' = [pc EXCEPT ![u] = "busyChk"]
    /\ elapsed' = [elapsed EXCEPT ![u] = 0]
    /\ UNCHANGED <<started, serial_, sem, key_pin, sta_pin, uart_rx, readBuffer, fed, printed, op, arg, line, wres, busy, eol, rtn, elapsed2,
                   linesGot, info, holds, ncalls, nemit>>
    /\ uart_tx' = ""
    /\ UNCHANGED sent

\* a write that goes ahead without a UART handle
WriteAborts_IgnoresSerial == isBuzy

\* write returns 0: `if (isBuzy()) return 0;` or `if (serial_ && str)` fails
WriteAborts == isBuzy \/ ~serial_

\* write: `if (isBuzy()) return 0;` and `if (serial_ && str)`
BusyChk(u) ==
    /\ pc[u] = "busyChk"
    /\ busy' = [busy EXCEPT ![u] = isBuzy]
    /\ UNCHANGED eol
    /\ IF WriteAborts
       THEN /\ wres' = [wres EXCEPT ![u] = 0]
            /\ pc' = [pc EXCEPT ![u] = "keyHigh"]
       ELSE /\ pc' = [pc EXCEPT ![u] = "tx"]
            /\ UNCHANGED wres
    /\ UNCHANGED <<started, serial_, sem, key_pin, sta_pin, uart_rx, readBuffer, fed, printed, op, arg, line, rtn, elapsed, elapsed2,
                   linesGot, info, holds, ncalls, nemit>>
    /\ uart_tx' = ""
    /\ UNCHANGED sent

\* write: delay(100); return serial_->write(str, strlen(str))
Tx(u) ==
    /\ pc[u] = "tx"
    /\ uart_tx' = CommandText(op[u], arg[u])
    /\ UNCHANGED sent
    /\ wres' = [wres EXCEPT ![u] = Len(CommandText(op[u], arg[u]))]
    /\ pc' = [pc EXCEPT ![u] = "keyHigh"]
    /\ UNCHANGED <<started, serial_, sem, key_pin, sta_pin, uart_rx, readBuffer, fed,
                   printed, op, arg, line, busy, eol, rtn, elapsed, elapsed2, linesGot, info,
                   holds, ncalls, nemit>>

\* what the operation does with a writeCommand result of 0
WriteFailedRtn(o) ==
    IF o \in OkOps THEN BoolRtn(FALSE)
    ELSE IF o = "getBasicParams" THEN ParamsRtn
    ELSE StrRtn(WriteFailedText)

\* where the operation goes with a writeCommand result of 0: test() holds no
\* semaphore, getBasicParams returns info at once, the others give it back
WriteFailedPc(o) == IF o \in {"test", "getBasicParams"} THEN "done" ELSE "give"

\* writeCommand: digitalWrite(key_pin_, HIGH); return result; and the caller's
\* branch on it
KeyHigh(u) ==
    /\ pc[u] = "keyHigh"
    /\ key_pin' = "HIGH"
    /\ line' = [line EXCEPT ![u] = ""]
    /\ elapsed' = [elapsed EXCEPT ![u] = 0]
    /\ elapsed2' = [elapsed2 EXCEPT ![u] = 0]
    /\ IF wres[u] > 0
       THEN /\ pc' = [pc EXCEPT ![u] = IF op[u] \in OkOps THEN "expOK" ELSE "expLine"]
            /\ UNCHANGED rtn
       ELSE /\ pc' = [pc EXCEPT ![u] = WriteFailedPc(op[u])]
            /\ rtn' = [rtn EXCEPT ![u] = WriteFailedRtn(op[u])]
    /\ UNCHANGED <<started, serial_, sem, sta_pin, uart_rx, readBuffer, fed,
                   printed, op, arg, wres, busy, eol, linesGot, info, holds, ncalls, nemit>>
    /\ uart_tx' = ""
    /\ UNCHANGED sent

-----------------------------------------------------------------------------
(* _expectLine() and what each operation does with the line *)

IsEol(c) == c = LF \/ c = CR

\* getBasicParams: `while (millis() - t0 < timeout_ms && linesGot < 4)`
BasicLoopGoesOn(u, got) == elapsed2[u] < BASIC_PARAMS_TIMEOUT_MS /\ got < BASIC_PARAMS_LINES

\* _expectLine has returned l to the operation of u, after its break (byEol)
\* or after its loop condition failed
LineDone(u, l, byEol) ==
    /\ eol' = [eol EXCEPT ![u] = byEol]
    /\ IF op[u] = "getBasicParams"
       THEN LET got == IF Len(l) = 0 THEN linesGot[u] ELSE linesGot[u] + 1
            IN /\ linesGot' = [linesGot EXCEPT ![u] = got]
               /\ info' = [info EXCEPT ![u] = IF Len(l) = 0 THEN @ ELSE Dispatch(@, l)]
               /\ line' = [line EXCEPT ![u] = ""]
               /\ elapsed' = [elapsed EXCEPT ![u] = 0]
               /\ IF BasicLoopGoesOn(u, got)
                  THEN UNCHANGED <<pc, rtn>>
                  ELSE /\ pc' = [pc EXCEPT ![u] = "give"]
                       /\ rtn' = [rtn EXCEPT ![u] = ParamsRtn]
       ELSE /\ line' = [line EXCEPT ![u] = l]
            /\ rtn' = [rtn EXCEPT ![u] = LineRtn(op[u], l)]
            /\ pc' = [pc EXCEPT ![u] = "give"]
            /\ UNCHANGED <<linesGot, info, elapsed>>

\* a deadline test that gives up as soon as any time has passed
ExpLineExpired_AnyTime(u) == elapsed[u] > 0

\* _expectLine: `millis() - time1 < timeout_ms` is false
ExpLineExpired(u) == elapsed[u] >= ExpectLineMs(op[u])

\* _expectLine: one pass of the loop with a byte available
ExpLineRead(u) ==
    /\ pc[u] = "expLine"
    /\ ~ExpLineExpired(u)
    /\ Len(uart_rx) > 0
    /\ uart_rx' = Tail(uart_rx)
    /\ IF IsEol(Head(uart_rx))
       THEN LineDone(u, line[u], TRUE)
       ELSE /\ line' = [line EXCEPT ![u] = @ \o Head(uart_rx)]
            /\ UNCHANGED <<pc, rtn, linesGot, info, elapsed, eol>>
    /\ UNCHANGED <<started, serial_, sem, key_pin, sta_pin, readBuffer, fed,
                   printed, op, arg, wres, busy, elapsed2, holds, ncalls, nemit>>
    /\ uart_tx' = ""
    /\ UNCHANGED sent

\* _expectLine: the loop ends on its condition
ExpLineTimeout(u) ==
    /\ pc[u] = "expLine"
    /\ ExpLineExpired(u)
    /\ LineDone(u, line[u], FALSE)
    /\ UNCHANGED <<started, serial_, sem, key_pin, sta_pin, uart_rx, readBuffer, fed,
                   printed, op, arg, wres, busy, elapsed2, holds, ncalls, nemit>>
    /\ uart_tx' = ""
    /\ UNCHANGED sent

-----------------------------------------------------------------------------
(* _expectOK(expect_word), called with timeout_ms = 0 and spill_to_buf = false *)

\* _expectOK has returned ok to test() or resetDefault()
OkDone(u, ok) ==
    /\ rtn' = [rtn EXCEPT ![u] = BoolRtn(ok)]
    /\ pc' = [pc EXCEPT ![u] = IF op[u] = "test" THEN "done" ELSE "give"]

\* _expectOK: the outer `while (millis() - start < timeout_ms)`
ExpOkLoop(u) ==
    /\ pc[u] = "expOK"
    /\ IF elapsed[u] < timeout_
       THEN /\ pc' = [pc EXCEPT ![u] = "okInner"]
            /\ UNCHANGED rtn
       ELSE OkDone(u, FALSE)
    /\ UNCHANGED <<started, serial_, sem, key_pin, sta_pin, uart_rx, readBuffer, fed, printed, op, arg, line, wres, busy, eol, elapsed, elapsed2,
                   linesGot, info, holds, ncalls, nemit>>
    /\ uart_tx' = ""
    /\ UNCHANGED sent

\* _expectOK: one pass of the inner `while (serial_->available() > 0)`
ExpOkRead(u) ==
    /\ pc[u] = "okInner"
    /\ Len(uart_rx) > 0
    /\ uart_rx' = Tail(uart_rx)
    /\ IF IsEol(Head(uart_rx))
       THEN IF Len(line[u]) > 0
            THEN IF line[u] = ExpectWord(op[u])
                 THEN /\ OkDone(u, TRUE)
                      /\ UNCHANGED line
                 ELSE /\ line' = [line EXCEPT ![u] = ""]
                      /\ UNCHANGED <<pc, rtn>>
            ELSE UNCHANGED <<line, pc, rtn>>
       ELSE /\ line' = [line EXCEPT ![u] = @ \o Head(uart_rx)]
            /\ UNCHANGED <<pc, rtn>>
    /\ UNCHANGED <<started, serial_, sem, key_pin, sta_pin, readBuffer, fed,
                   printed, op, arg, wres, busy, eol, elapsed, elapsed2, linesGot, info,
                   holds, ncalls, nemit>>
    /\ uart_tx' = ""
    /\ UNCHANGED sent

\* _expectOK: nothing available, vTaskDelay(1)
ExpOkYield(u) ==
    /\ pc[u] = "okInner"
    /\ Len(uart_rx) = 0
    /\ pc' = [pc EXCEPT ![u] = "expOK"]
    /\ UNCHANGED <<started, serial_, sem, key_pin, sta_pin, uart_rx, readBuffer, fed, printed, op, arg, line, wres, busy, eol, rtn, elapsed,
                   elapsed2, linesGot, info, holds, ncalls, nemit>>
    /\ uart_tx' = ""
    /\ UNCHANGED sent

-----------------------------------------------------------------------------
(* monitorTask: the part of one pass that runs with the semaphore *)

\* a drain that reads while the module is busy
DrainReads_IgnoresBusy == Len(uart_rx) > 0

\* `if (!isBuzy() && serial_->available() > 0)`
DrainReads == ~isBuzy /\ Len(uart_rx) > 0

MonDrain ==
    /\ pc[Monitor] = "drain"
    /\ IF DrainReads
       THEN /\ readBuffer' = readBuffer \o uart_rx
            /\ fed' = fed \o uart_rx
            /\ uart_rx' = ""
       ELSE UNCHANGED <<readBuffer, fed, uart_rx>>
    /\ pc' = [pc EXCEPT ![Monitor] = "give"]
    /\ UNCHANGED <<started, serial_, sem, key_pin, sta_pin, printed, op, arg,
                   line, wres, busy, eol, rtn, elapsed, elapsed2, linesGot, info, holds,
                   ncalls, nemit>>
    /\ uart_tx' = ""
    /\ UNCHANGED sent

-----------------------------------------------------------------------------
(* The read task of setup(): with the semaphore, readLine() while available() *)

RdLine ==
    /\ pc[Reader] = "read"
    /\ Len(readBuffer) > 0
    /\ readBuffer' = ReadLine(readBuffer).rest
    /\ printed' = Append(printed, ReadLine(readBuffer).line)
    /\ UNCHANGED <<fed, started, serial_, sem, key_pin, sta_pin, uart_rx, pc, op,
                   arg, line, wres, busy, eol, rtn, elapsed, elapsed2, linesGot, info, holds,
                   ncalls, nemit>>
    /\ uart_tx' = ""
    /\ UNCHANGED sent

RdDone ==
    /\ pc[Reader] = "read"
    /\ Len(readBuffer) = 0
    /\ pc' = [pc EXCEPT ![Reader] = "give"]
    /\ UNCHANGED <<started, serial_, sem, key_pin, sta_pin, uart_rx, readBuffer, fed, printed, op, arg, line, wres, busy, eol, rtn, elapsed,
                   elapsed2, linesGot, info, holds, ncalls, nemit>>
    /\ uart_tx' = ""
    /\ UNCHANGED sent

-----------------------------------------------------------------------------
(* The module and the clock *)

\* the module raises or lowers its STA line
StaToggle ==
    /\ started \in {"ready", "failed"}
    /\ sta_pin' = IF sta_pin = "HIGH" THEN "LOW" ELSE "HIGH"
    /\ UNCHANGED <<started, serial_, sem, key_pin, uart_rx, readBuffer, fed,
                   printed, pc, op, arg, line, wres, busy, eol, rtn, elapsed, elapsed2,
                   linesGot, info, holds, ncalls, nemit>>
    /\ uart_tx' = ""
    /\ UNCHANGED sent

\* the module sends bytes
ModuleSend(bytes) ==
    /\ started = "ready"
    /\ nemit < MaxEmit
    /\ Len(uart_rx) + Len(bytes) <= MaxRx
    /\ uart_rx' = uart_rx \o bytes
    /\ nemit' = nemit + 1
    /\ UNCHANGED <<started, serial_, sem, key_pin, sta_pin, readBuffer, fed,
                   printed, pc, op, arg, line, wres, busy, eol, rtn, elapsed, elapsed2,
                   linesGot, info, holds, ncalls>>
    /\ uart_tx' = ""
    /\ UNCHANGED sent

\* the limit of the timed wait unit u is in (0: in none)
WaitLimit(u) ==
    CASE pc[u] = "take" -> LockWaitMs(u)
      [] pc[u] = "busyWait" -> timeout_
      [] pc[u] = "expLine" -> ExpectLineMs(op[u])
      [] pc[u] \in {"expOK", "okInner"} -> timeout_
      [] OTHER -> 0

Wait2Limit(u) ==
    IF pc[u] = "expLine" /\ op[u] = "getBasicParams" THEN BASIC_PARAMS_TIMEOUT_MS ELSE 0

Min(a, b) == IF a < b THEN a ELSE b

\* millis() advances by d: every running wait sees it (values past a wait's
\* limit are kept at the limit, the code only compares them with it)
Tick(d) ==
    /\ started \in {"ready", "failed"}
    /\ \E u \in Units : elapsed[u] < WaitLimit(u) \/ elapsed2[u] < Wait2Limit(u)
    /\ elapsed' = [u \in Units |-> IF elapsed[u] < WaitLimit(u)
                                   THEN Min(elapsed[u] + d, WaitLimit(u)) ELSE elapsed[u]]
    /\ elapsed2' = [u \in Units |-> IF elapsed2[u] < Wait2Limit(u)
                                    THEN Min(elapsed2[u] + d, Wait2Limit(u)) ELSE elapsed2[u]]
    /\ UNCHANGED <<started, serial_, sem, key_pin, sta_pin, uart_rx, readBuffer, fed, printed, pc, op, arg, line, wres, busy, eol, rtn, linesGot,
                   info, holds, ncalls, nemit>>
    /\ uart_tx' = ""
    /\ UNCHANGED sent

-----------------------------------------------------------------------------
(* The steps of a unit inside the driver *)

UnitStep(u) ==
    \/ Take(u)
    \/ TakeTimeout(u)
    \/ Give(u)
    \/ KeyLow(u)
    \/ BusyWaitExit(u)
    \/ BusyChk(u)
    \/ Tx(u)
    \/ KeyHigh(u)
    \/ ExpLineRead(u)
    \/ ExpLineTimeout(u)
    \/ ExpOkLoop(u)
    \/ ExpOkRead(u)
    \/ ExpOkYield(u)
    \/ Return(u)

-----------------------------------------------------------------------------
(* Spec: two callers, the monitor task and the module, all running at once *)

\* the operations each caller calls: c1 every one, c2 the unlocked self-test
\* and one locked operation
CallOps(u) == IF u = "c1" THEN Ops ELSE {"test", "getChannel"}

\* the arguments they pass: one inside and one outside each valid range
CallArgs(o) ==
    CASE o = "setChannel" -> {NumArg(0), NumArg(7)}
      [] o = "setSpeed" -> {NumArg(3), NumArg(9)}
      [] o = "setParityBit" -> {StrArg("1"), StrArg("3")}
      [] o = "setStopBit" -> {StrArg("2"), StrArg("0")}
      [] OTHER -> {NoArg}

\* what the module sends
ModuleChunks == {"OK\r\n"}

Next ==
    \/ Begin
    \/ \E u \in Callers : \E o \in CallOps(u) : \E a \in CallArgs(o) : Call(u, o, a)
    \/ \E u \in Callers \cup {Monitor} : UnitStep(u)
    \/ MonDrain
    \/ StaToggle
    \/ \E b \in ModuleChunks : ModuleSend(b)
    \/ Tick(TickBig)

Spec == Init /\ [][Next]_vars

-----------------------------------------------------------------------------
(* SpecOne: one command call, any operation with any argument, made to a    *)
(* module that answers what it is sent, beside the monitor task             *)

\* the arguments of the call: every channel and speed in and around the valid
\* ranges, every one-digit parity and stop bit around the valid sets
OneArgs(o) ==
    CASE o = "setChannel" -> {NumArg(n) : n \in 0..51}
      [] o = "setSpeed" -> {NumArg(n) : n \in 0..9}
      [] o = "setParityBit" -> {StrArg(DigitChar(d)) : d \in 0..3}
      [] o = "setStopBit" -> {StrArg(DigitChar(d)) : d \in 0..4}
      [] OTHER -> {NoArg}

\* the module's reply line to a command it has received (wire protocol)
ReplyLine(cmd) ==
    IF cmd = "AT\r\n" THEN "OK"
    ELSE IF cmd = "AT+DEFAULT\r\n" THEN "OK+DEFAULT"
    ELSE IF cmd = "AT+B?\r\n" THEN "OK+B:9600"
    ELSE IF cmd = "AT+C?\r\n" THEN "OK+C:028"
    ELSE IF cmd = "AT+S?\r\n" THEN "OK+S:003"
    ELSE IF cmd = "AT+PARITYBIT?\r\n" THEN "OK+PARITYBIT:0"
    ELSE IF cmd = "AT+STOPBIT?\r\n" THEN "OK+STOPBIT:1"
    ELSE IF cmd = "AT+RX\r\n" THEN "OK+B:9600"
    ELSE IF StartsWith(cmd, "AT+PARITYBIT") THEN "OK+PARITYBIT:" \o CharAt(cmd, 12)
    ELSE IF StartsWith(cmd, "AT+STOPBIT") THEN "OK+STOPBIT:" \o CharAt(cmd, 10)
    ELSE IF StartsWith(cmd, "AT+C") THEN "OK+C:" \o Substring2(cmd, 4, 7)
    ELSE IF StartsWith(cmd, "AT+S") THEN "OK+S:" \o Substring2(cmd, 4, 7)
    ELSE "ERROR"

\* the module answers the command that has just been written
ModuleEcho ==
    /\ started = "ready"
    /\ uart_tx # ""
    /\ Len(uart_rx) + Len(ReplyLine(uart_tx)) + 2 <= MaxRx
    /\ uart_rx' = uart_rx \o ReplyLine(uart_tx) \o CRLF
    /\ uart_tx' = ""
    /\ UNCHANGED sent
    /\ UNCHANGED <<started, serial_, sem, key_pin, sta_pin, readBuffer, fed, printed,
                   pc, op, arg, line, wres, busy, eol, rtn, elapsed, elapsed2, linesGot,
                   info, holds, ncalls, nemit>>

\* what the module sends unasked
OneChunks == {"ERROR\r\n", "\n"}

\* the one call
CallOne(o, a) == ncalls = 0 /\ Call("c1", o, a)

NextOne ==
    \/ Begin
    \/ \E o \in Ops : \E a \in OneArgs(o) : CallOne(o, a)
    \/ \E u \in {"c1", Monitor} : UnitStep(u)
    \/ MonDrain
    \/ StaToggle
    \/ ModuleEcho
    \/ \E b \in OneChunks : ModuleSend(b)
    \/ Tick(TickSmall)

SpecOne == Init /\ [][NextOne]_vars

-----------------------------------------------------------------------------
(* SpecLine: readLine() called again and again on a buffer of any content   *)

\* the state begin() and the task creation leave, nothing received yet
Started ==
    /\ started = "ready"
    /\ serial_ = TRUE
    /\ sem = 1
    /\ key_pin = "HIGH"
    /\ sta_pin = "HIGH"
    /\ uart_rx = ""
    /\ uart_tx = ""
    /\ printed = <<>>
    /\ pc = [u \in Units |-> IF u \in Callers THEN "idle" ELSE "take"]
    /\ op = [u \in Units |-> "none"]
    /\ line = [u \in Units |-> ""]
    /\ wres = [u \in Units |-> 0]
    /\ busy = [u \in Units |-> FALSE]
    /\ eol = [u \in Units |-> FALSE]
    /\ rtn = [u \in Units |-> NoRtn]
    /\ elapsed = [u \in Units |-> 0]
    /\ elapsed2 = [u \in Units |-> 0]
    /\ linesGot = [u \in Units |-> 0]
    /\ info = [u \in Units |-> ZeroInfo]
    /\ holds = [u \in Units |-> 0]
    /\ ncalls = 0
    /\ nemit = 0
    /\ sent = <<>>

LineAlphabet == {"a", CR, LF}

\* every string over LineAlphabet of length up to n
RECURSIVE StringsUpTo(_)
StringsUpTo(n) ==
    IF n = 0 THEN {""}
    ELSE StringsUpTo(n - 1) \cup {s \o c : s \in StringsUpTo(n - 1), c \in LineAlphabet}

\* the buffer contents readLine() is tried on
LineInputs == StringsUpTo(MaxBufLen)
              \cup {"OK+C:023\r\nOK+S:003\r\n", "partial", "OK+C:023\r\nrest"}

InitLine ==
    /\ Started
    /\ readBuffer \in LineInputs
    /\ fed = readBuffer
    /\ arg = [u \in Units |-> NoArg]

\* a consumer calls readLine() and prints what it returns
ReadLineCall ==
    /\ Len(printed) < MaxReads
    /\ readBuffer' = ReadLine(readBuffer).rest
    /\ printed' = Append(printed, ReadLine(readBuffer).line)
    /\ uart_tx' = ""
    /\ UNCHANGED sent
    /\ UNCHANGED <<started, serial_, sem, key_pin, sta_pin, uart_rx, fed, pc, op, arg,
                   line, wres, busy, eol, rtn, elapsed, elapsed2, linesGot, info, holds,
                   ncalls, nemit>>

NextLine == ReadLineCall

SpecLine == InitLine /\ [][NextLine]_vars

-----------------------------------------------------------------------------
(* SpecCodec: channelConvertString applied to any uint8_t                   *)

InitCodec ==
    /\ Started
    /\ readBuffer = ""
    /\ fed = ""
    /\ \E n \in 0..255 : arg = [u \in Units |-> IF u = "c1" THEN NumArg(n) ELSE NoArg]

\* channelConvertString(channel) returns
Encode ==
    /\ pc["c1"] = "idle"
    /\ pc' = [pc EXCEPT !["c1"] = "done"]
    /\ rtn' = [rtn EXCEPT !["c1"] = StrRtn(channelConvertString(arg["c1"].n))]
    /\ uart_tx' = ""
    /\ UNCHANGED sent
    /\ UNCHANGED <<started, serial_, sem, key_pin, sta_pin, uart_rx, readBuffer, fed,
                   printed, op, arg, line, wres, busy, eol, elapsed, elapsed2, linesGot,
                   info, holds, ncalls, nemit>>

NextCodec == Encode

SpecCodec == InitCodec /\ [][NextCodec]_vars

-----------------------------------------------------------------------------
(* Reference definitions the properties are stated with *)

\* three decimal digits, zero-padded, of a number below 1000
Pad3(v) == DigitChar(v \div 100) \o DigitChar((v \div 10) % 10) \o DigitChar(v % 10)

\* a field of exactly three decimal digits
IsField(s) == Len(s) = 3 /\ \A i \in 0..2 : IsDigit(CharAt(s, i))

HasEol(s) == \E i \in 0..(Len(s) - 1) : IsEol(CharAt(s, i))

\* 0-based index of the first CR or LF of s, whichever comes first, or -1
FirstEol(s) ==
    LET hits == {i \in 0..(Len(s) - 1) : IsEol(CharAt(s, i))}
    IN IF hits = {} THEN -1 ELSE CHOOSE i \in hits : \A j \in hits : i <= j

\* the three-case reference of line extraction
RefReadLine(buf) ==
    IF FirstEol(buf) # -1
    THEN [line |-> Substring2(buf, 0, FirstEol(buf)), rest |-> Substring(buf, FirstEol(buf) + 1)]
    ELSE [line |-> buf, rest |-> ""]

\* what n reference extractions from buf return, and what they leave
RECURSIVE RefPrinted(_, _)
RefPrinted(buf, n) ==
    IF n = 0 THEN <<>> ELSE <<RefReadLine(buf).line>> \o RefPrinted(RefReadLine(buf).rest, n - 1)

RECURSIVE RefRest(_, _)
RefRest(buf, n) == IF n = 0 THEN buf ELSE RefRest(RefReadLine(buf).rest, n - 1)

\* the lines of a text made of lines that each end with CR LF; <<>> for ""
RECURSIVE CrLfLines(_)
CrLfLines(s) ==
    IF s = "" THEN <<>>
    ELSE <<Substring2(s, 0, FirstEol(s))>> \o CrLfLines(Substring(s, FirstEol(s) + 2))

\* s is one or more lines, each ended by CR LF
RECURSIVE IsCrLfText(_)
IsCrLfText(s) ==
    /\ FirstEol(s) # -1
    /\ Substring2(s, FirstEol(s), FirstEol(s) + 2) = CRLF
    /\ (Substring(s, FirstEol(s) + 2) = "" \/ IsCrLfText(Substring(s, FirstEol(s) + 2)))

Holders == {u \in Units : holds[u] > 0}

-----------------------------------------------------------------------------
(* Properties *)

\* C1: at no instant do two units hold the token (hc15_buzy_semaphore_)
\* simultaneously, whatever commands and drain ticks run concurrently.
C1_MutualExclusion == Cardinality(Holders) <= 1

\* C1 witness: a caller holds the token while the other caller and the
\* monitor task are both waiting to take it.
C1_Witness ==
    \E u \in Callers :
        /\ holds[u] = 1
        /\ pc[Monitor] = "take"
        /\ \E v \in Callers \ {u} : pc[v] = "take"

\* C2: bytes are written to the UART only by a unit that holds the token and
\* whose busy-sense reading was idle; this includes test().
C2_WriteOnlyByIdleHolder ==
    [][\A u \in Units : (pc[u] = "tx" /\ pc'[u] # "tx") => (holds[u] > 0 /\ ~busy[u])]_vars

\* C3: every command call and every drain tick that took the token has given
\* it back exactly once when it finishes, on every exit path.
C3_ReleasedOnEveryExit ==
    \A u \in Units : /\ holds[u] \in {0, 1}
                     /\ pc[u] \in {"idle", "done", "take", "off"} => holds[u] = 0

\* C4: whatever the outcome of a command invocation that took the token, the
\* mode-select pin (key_pin_) is HIGH at the moment the invocation gives the
\* token back, and still HIGH when it has given it back and ends.
C4_PinHighAtReleaseAndEnd ==
    [][\A u \in Callers :
          (holds'[u] < holds[u]) => (key_pin = "HIGH" /\ key_pin' = "HIGH")]_vars

\* the arguments the claim C5 calls invalid
OutOfDomain(o, a) ==
    \/ o = "setChannel" /\ a.n \notin 1..50
    \/ o = "setSpeed" /\ a.n \notin 1..8
    \/ o = "setParityBit" /\ a.s \notin {"0", "1", "2"}
    \/ o = "setStopBit" /\ a.s \notin {"1", "2", "3"}

InvalidOutcomes == {"INVALID CHANNEL", "INVALID PARITY BIT", "INVALID STOP BIT"}

\* C5: a set operation called with a value outside its domain returns an
\* invalid-parameter outcome in the very step of the call, and that step takes
\* no token, leaves the mode-select pin alone, writes no byte and reads none.
C5_InvalidRejectedWithoutEffect ==
    [][\A u \in Callers :
          (pc[u] = "idle" /\ pc'[u] # "idle" /\ OutOfDomain(op'[u], arg'[u]))
          => /\ pc'[u] = "done"
             /\ rtn'[u].kind = "str" /\ rtn'[u].str \in InvalidOutcomes
             /\ UNCHANGED <<sem, holds, key_pin, uart_rx, readBuffer>>
             /\ uart_tx' = ""]_vars

\* C5 witness: setChannel(51) has returned "INVALID CHANNEL".
C5_Witness ==
    /\ pc["c1"] = "done" /\ op["c1"] = "setChannel" /\ arg["c1"].n = 51
    /\ rtn["c1"] = StrRtn("INVALID CHANNEL")

-----------------------------------------------------------------------------
(* SpecOneLive: SpecOne with the scheduling the firmware gives: the calling *)
(* task keeps running (loop() is never starved for ever) and millis() keeps *)
(* advancing                                                                *)

SpecOneLive ==
    /\ Init
    /\ [][NextOne]_vars
    /\ WF_vars(UnitStep("c1"))
    /\ WF_vars(Tick(TickSmall))

\* p occurs somewhere in s
Contains(s, p) == \E i \in 0..(Len(s) - Len(p)) : Substring2(s, i, i + Len(p)) = p

\* getChannel of u has its _expectLine result and is about to give the token
GetChannelAnswered(u) ==
    pc[u] = "give" /\ op[u] = "getChannel" /\ wres[u] > 0

\* the module has produced no line that starts with the prefix getChannel
\* expects: neither the line read nor the bytes still in the UART hold it
NoMatchingReply(u) ==
    ~StartsWith(line[u], "OK+C:") /\ ~Contains(uart_rx, "OK+C:")

C7_ReadLineIsReference ==
    /\ printed = RefPrinted(fed, Len(printed))
    /\ readBuffer = RefRest(fed, Len(printed))

\* C8: on a buffer of k lines each ended by CR LF, the first k readLine()
\* calls return the k line texts in order, none holding a CR or LF, and the
\* call after them returns the empty string.
C8_CrLfLinesThenEmpty ==
    IsCrLfText(fed)
    => \A j \in 1..Len(printed) :
          /\ j <= Len(CrLfLines(fed)) => printed[j] = CrLfLines(fed)[j]
          /\ j = Len(CrLfLines(fed)) + 1 => printed[j] = ""
          /\ ~HasEol(printed[j])

\* the command setChannel(v) has to write
SetChannelFrame(v) == "AT+C" \o Pad3(v) \o CRLF

\* C9: for a valid channel v, what setChannel(v) writes is exactly "AT+C", the
\* three digits of v, CR LF; and when the line it reads is "OK+C:" with those
\* three digits (which is what it reads whenever the module's echo is all the
\* UART received), it returns the three digits, whose decoding is v.
C9_SetChannelRoundTrip ==
    \A u \in Callers :
        (op[u] = "setChannel" /\ arg[u].n \in 1..50)
        => /\ (pc[u] = "keyHigh" /\ uart_tx # "")
              => (uart_tx = SetChannelFrame(arg[u].n) /\ wres[u] = Len(uart_tx))
           /\ (pc[u] = "give" /\ wres[u] > 0 /\ line[u] = "OK+C:" \o Pad3(arg[u].n))
              => (rtn[u] = StrRtn(Pad3(arg[u].n)) /\ ToInt(rtn[u].str) = arg[u].n)
           /\ (pc[u] = "give" /\ wres[u] > 0 /\ eol[u] /\ nemit = 0)
              => rtn[u] = StrRtn(Pad3(arg[u].n))

\* C9 witness: setChannel(7) has read the module's "OK+C:007" and is
\* returning "007".
C9_Witness ==
    /\ pc["c1"] = "give" /\ op["c1"] = "setChannel" /\ arg["c1"].n = 7
    /\ wres["c1"] = Len("AT+C007\r\n")
    /\ line["c1"] = "OK+C:007"
    /\ rtn["c1"] = StrRtn("007")

\* channelConvertString has returned for the input v == arg["c1"].n
Encoded == pc["c1"] = "done"

\* the encoder's output field is right for a valid input: three digits,
\* zero-padded, that decode to the input
FieldRoundTrips(v, f) == f = Pad3(v) /\ IsField(f) /\ ToInt(f) = v

ValueField(o, l) ==
    LET after == Substring(l, Len(ExpectPrefix(o)))
    IN IF StartsWith(after, ":") THEN Substring(after, 1) ELSE after

\* a get/set operation of u has the line of _expectLine and is about to give
\* the token back and return
LineOpAnswered(u) == pc[u] = "give" /\ op[u] \in LineOps /\ wres[u] > 0

\* C11: a get/set operation whose reply line starts with its expected prefix
\* returns the line without that prefix and its ':' separator, the value field
\* and nothing else; on a line without the prefix it returns the unexpected
\* response outcome.
C11_ValueIsLineWithoutPrefix ==
    \A u \in Callers :
        LineOpAnswered(u)
        => IF StartsWith(line[u], ExpectPrefix(op[u]))
           THEN rtn[u] = StrRtn(ValueField(op[u], line[u]))
           ELSE rtn[u] = StrRtn(ErrorResponseText)

-----------------------------------------------------------------------------
(* SpecParams: one getBasicParams() call to a module that answers "AT+RX"   *)
(* with its parameter lines, each at most once, in any order, any of them   *)
(* missing                                                                  *)

\* the lines of the answer, as the comments of getBasicParams give them; the
\* transmit power is signed dBm and may be 0
ParamLines == {"OK+B:9600", "OK+C:28", "OK+S:3", "OK+P:22dBm", "OK+P:0dBm"}

ParamPrefixes == {"OK+B:", "OK+C:", "OK+S:", "OK+P:"}

PrefixOf(l) == Substring2(l, 0, 5)

\* the module sends one more line of its answer, ended by CR LF
ModuleLine(l) ==
    /\ started = "ready"
    /\ \E u \in Callers : op[u] = "getBasicParams" /\ wres[u] > 0
    /\ \A i \in 1..Len(sent) : PrefixOf(sent[i]) # PrefixOf(l)
    /\ sent' = Append(sent, l)
    /\ uart_rx' = uart_rx \o l \o CRLF
    /\ uart_tx' = ""
    /\ UNCHANGED <<started, serial_, sem, key_pin, sta_pin, readBuffer, fed, printed,
                   pc, op, arg, line, wres, busy, eol, rtn, elapsed, elapsed2, linesGot,
                   info, holds, ncalls, nemit>>

CallParams == CallOne("getBasicParams", NoArg)

NextParams ==
    \/ Begin
    \/ CallParams
    \/ Take("c1")
    \/ TakeTimeout("c1")
    \/ Give("c1")
    \/ KeyLow("c1")
    \/ BusyWaitExit("c1")
    \/ BusyChk("c1")
    \/ Tx("c1")
    \/ KeyHigh("c1")
    \/ ExpLineRead("c1")
    \/ ExpLineTimeout("c1")
    \/ Return("c1")
    \/ StaToggle
    \/ \E l \in ParamLines : ModuleLine(l)
    \/ Tick(TickSmall)

SpecParams == Init /\ [][NextParams]_vars

\* the number a parameter line carries
LineValue(l) ==
    CASE l = "OK+B:9600" -> 9600
      [] l = "OK+C:28" -> 28
      [] l = "OK+S:3" -> 3
      [] l = "OK+P:22dBm" -> 22
      [] l = "OK+P:0dBm" -> 0

\* the field of a result i that belongs to the prefix p
Field(i, p) ==
    CASE p = "OK+B:" -> i.baud
      [] p = "OK+C:" -> i.chan
      [] p = "OK+S:" -> i.airSpd
      [] p = "OK+P:" -> i.txPwr

\* bytes of the answer up to and without the k-th line
RECURSIVE SentBefore(_)
SentBefore(k) == IF k <= 1 THEN 0 ELSE SentBefore(k - 1) + Len(sent[k - 1]) + 2

\* bytes of the answer the driver has read from the UART
Consumed == SentBefore(Len(sent) + 1) - Len(uart_rx)

\* the k-th line of the answer has been read up to and with its CR
LineReceived(k) == SentBefore(k) + Len(sent[k]) + 1 <= Consumed

\* no byte of the k-th line has been read
LineUntouched(k) == Consumed <= SentBefore(k)

\* getBasicParams has left its loop and is about to give the token back
ParamsRead == pc["c1"] = "give" /\ op["c1"] = "getBasicParams"

\* C12: whatever the order of the lines, when getBasicParams leaves its loop
\* every field whose line was received holds the number of that line, and
\* every field whose line was not sent or not read at all is 0.
C12_FieldsHoldReceivedLines ==
    ParamsRead
    => \A p \in ParamPrefixes :
          LET idx == {k \in 1..Len(sent) : PrefixOf(sent[k]) = p}
          IN /\ \A k \in idx : LineReceived(k) => Field(info["c1"], p) = LineValue(sent[k])
             /\ (\A k \in idx : LineUntouched(k)) => Field(info["c1"], p) = 0


\* the result getBasicParams returns after all four lines: the lines' numbers
AllLinesResult(power) ==
    [baud |-> LineValue("OK+B:9600"), chan |-> LineValue("OK+C:28"),
     airSpd |-> LineValue("OK+S:3"), txPwr |-> LineValue(power)]

\* the results of complete reads
CompleteResults == {AllLinesResult(l) : l \in {l \in ParamLines : PrefixOf(l) = "OK+P:"}}

\* getBasicParams of c1 returns without having got four lines: its loop ended
\* on the deadline, or it never got the token, or its write failed
ParamsIncomplete ==
    /\ op["c1"] = "getBasicParams"
    /\ \/ pc["c1"] = "give" /\ linesGot["c1"] < BASIC_PARAMS_LINES
       \/ pc["c1"] = "done" /\ wres["c1"] = 0

\* C13: the value getBasicParams returns after fewer than four lines (or
\* after a lock timeout or a failed write) tells the caller so: it is none of
\* the values a complete read returns.
C13_IncompleteIsTold == ParamsIncomplete => info["c1"] \notin CompleteResults

\* a complete read has returned the value AllLinesResult("OK+P:0dBm")
C13_CompleteReadWithZeroPower ==
    ~(ParamsRead /\ linesGot["c1"] = BASIC_PARAMS_LINES /\ Len(sent) = 4
      /\ info["c1"] = AllLinesResult("OK+P:0dBm"))


-----------------------------------------------------------------------------
(* C14: what a failed command tells its caller *)

\* the way the finished call of u has failed ("none": it has not, or in a way
\* the four kinds do not name), read from what the call went through
FailureKind(u) ==
    IF ~ValidArg(op[u], arg[u]) \/ ~serial_ THEN "none"
    ELSE IF wres[u] = 0 THEN (IF busy[u] THEN "moduleBusy" ELSE "lockTimeout")
    ELSE IF op[u] \in LineOps
    THEN (IF StartsWith(line[u], ExpectPrefix(op[u])) THEN "none"
          ELSE IF line[u] = "" /\ ~eol[u] THEN "responseTimeout"
          ELSE IF line[u] # "" /\ eol[u] THEN "unexpectedResponse"
          ELSE "none")
    ELSE IF op[u] \in OkOps THEN (IF rtn[u].ok THEN "none" ELSE "responseTimeout")
    ELSE IF linesGot[u] < BASIC_PARAMS_LINES THEN "responseTimeout"
    ELSE "none"

Failed(u) == pc[u] = "done" /\ op[u] \in Ops /\ FailureKind(u) # "none"

\* the returned value is the zero or empty value of its type
ZeroOrEmpty(u) ==
    \/ rtn[u] = StrRtn("")
    \/ rtn[u] = BoolRtn(FALSE)
    \/ rtn[u] = ParamsRtn /\ info[u] = ZeroInfo

\* C14: a failed command returns a value that is not the zero or empty value of
\* its type, and two failed calls of one operation that failed in different
\* ways (lock timeout, module busy, response timeout, unexpected response)
\* have returned different values.
C14_FailureKindIsTold ==
    /\ \A u \in Callers : Failed(u) => ~ZeroOrEmpty(u)
    /\ \A u, v \in Callers :
           (Failed(u) /\ Failed(v) /\ op[u] = op[v] /\ FailureKind(u) # FailureKind(v))
               => rtn[u] # rtn[v]

\* the string operations alone: getChannel has answered "ERROR RESPONSE" both
\* to no line and to a line without its prefix
C14_GetChannelKindsDiffer ==
    \A u, v \in Callers :
        (Failed(u) /\ Failed(v) /\ op[u] = "getChannel" /\ op[v] = "getChannel"
             /\ FailureKind(u) # FailureKind(v))
            => rtn[u] # rtn[v]


-----------------------------------------------------------------------------
(* C15: every invocation returns *)

-----------------------------------------------------------------------------
(* SpecTasks: the tasks of setup() - monitorTask and the read task - beside *)
(* one getChannel() call, with a module that sends text in pieces           *)

MaxFeed == 3

\* the pieces the module sends: lines arrive split over several of them
FeedChunks == {"a", "b\r", "\nc", "\r\n"}

\* the module sends a piece of text
ModuleFeed(bytes) ==
    /\ started = "ready"
    /\ nemit < MaxFeed
    /\ Len(uart_rx) + Len(bytes) <= MaxRx
    /\ uart_rx' = uart_rx \o bytes
    /\ nemit' = nemit + 1
    /\ UNCHANGED <<started, serial_, sem, key_pin, sta_pin, readBuffer, fed,
                   printed, pc, op, arg, line, wres, busy, eol, rtn, elapsed, elapsed2,
                   linesGot, info, holds, ncalls>>
    /\ uart_tx' = ""
    /\ UNCHANGED sent

\* the steps of the two tasks
TaskStep(u) ==
    \/ Take(u)
    \/ TakeTimeout(u)
    \/ Give(u)

CallGetChannel == CallOne("getChannel", NoArg)

NextTasks ==
    \/ Begin
    \/ \E u \in {Monitor, Reader} : TaskStep(u)
    \/ MonDrain
    \/ RdLine
    \/ RdDone
    \/ CallGetChannel
    \/ Take("c1")
    \/ TakeTimeout("c1")
    \/ Give("c1")
    \/ KeyLow("c1")
    \/ BusyWaitExit("c1")
    \/ BusyChk("c1")
    \/ Tx("c1")
    \/ KeyHigh("c1")
    \/ ExpLineRead("c1")
    \/ ExpLineTimeout("c1")
    \/ Return("c1")
    \/ StaToggle
    \/ \E b \in FeedChunks : ModuleFeed(b)
    \/ Tick(TickBig)

SpecTasks == Init /\ [][NextTasks]_vars

-----------------------------------------------------------------------------
(* C16: readBuffer changes only under the semaphore *)

\* C16: a step that lengthens readBuffer is the drain of monitorTask made
\* while monitorTask holds the semaphore, and a step that shortens it is the
\* readLine() of the read task made while the read task holds the semaphore;
\* no other step changes readBuffer.
C16_BufferChangesUnderToken ==
    [][(readBuffer' # readBuffer)
        => /\ sem = 0
           /\ \/ /\ Len(readBuffer') > Len(readBuffer)
                 /\ pc[Monitor] = "drain" /\ holds[Monitor] = 1
              \/ /\ Len(readBuffer') < Len(readBuffer)
                 /\ pc[Reader] = "read" /\ holds[Reader] = 1]_vars

\* C16 witness: both mutations have happened - the drain has appended, the
\* read task holds the semaphore and has taken a line off the front, and more
\* is left in the buffer.
C16_Witness ==
    /\ pc[Reader] = "read"
    /\ holds[Reader] = 1
    /\ Len(printed) > 0
    /\ readBuffer # ""
    /\ Len(fed) > Len(readBuffer)

-----------------------------------------------------------------------------
(* C17: no drained byte is lost or duplicated *)

\* s is what readLine() returned from its k-th call on, each line followed by
\* the delimiter it removed (none when it returned a buffer without one), and
\* then the buffer as it is now
RECURSIVE Accounted(_, _)
Accounted(s, k) ==
    IF k > Len(printed) THEN s = readBuffer
    ELSE /\ StartsWith(s, printed[k])
         /\ LET r == Substring(s, Len(printed[k]))
            IN \/ Accounted(r, k + 1)
               \/ Len(r) > 0 /\ IsEol(CharAt(r, 0)) /\ Accounted(Substring(r, 1), k + 1)

\* C17: at every point of every interleaving of drains and readLine() calls,
\* the lines returned so far, each with the delimiter removed after it,
\* followed by what is left in readBuffer, are the bytes drained so far, in
\* the order they arrived.
C17_DrainedBytesConserved == Accounted(fed, 1)

\* C17 witness: the read task has emptied the buffer, returning two lines or
\* more, and is outside its guarded block; the drain has appended again since.
C17_Witness ==
    /\ Len(printed) >= 2
    /\ readBuffer # ""
    /\ Len(fed) >= 4
    /\ pc[Reader] = "take"


-----------------------------------------------------------------------------
(* C18: begin() without a UART handle *)

\* the finished call of u has returned one of the failure values
ReturnedFailure(u) ==
    \/ rtn[u] = StrRtn(LockTimeoutText)
    \/ rtn[u] = StrRtn(WriteFailedText)
    \/ rtn[u] = StrRtn(InvalidText(op[u]))
    \/ rtn[u] = BoolRtn(FALSE)
    \/ rtn[u] = ParamsRtn /\ info[u] = ZeroInfo

\* C18: begin() returns false exactly when serial_ is unset; after that no
\* step writes a byte to the UART, no write reports a byte written and every
\* command operation that returns has returned a failure value.
C18_FailedBeginDisablesDriver ==
    /\ (started # "constructed") => ((started = "failed") <=> ~serial_)
    /\ (started = "failed")
       => /\ uart_tx = ""
          /\ \A u \in Callers :
                 /\ wres[u] = 0
                 /\ pc[u] = "done" => ReturnedFailure(u)

\* C18 witness: after the failed begin(), test() has gone through write()
\* with the module idle and has returned false.
C18_Witness ==
    /\ started = "failed"
    /\ pc["c1"] = "done"
    /\ op["c1"] = "test"
    /\ ~busy["c1"]
    /\ rtn["c1"] = BoolRtn(FALSE)


-----------------------------------------------------------------------------
(* C19: what one pass of monitorTask changes *)

\* the step is one of monitorTask: its position or its hold on the semaphore
\* changes
MonitorSteps ==
    pc'[Monitor] # pc[Monitor] \/ holds'[Monitor] # holds[Monitor]
        \/ (pc[Monitor] = "take" /\ elapsed[Monitor] >= MONITOR_LOCK_WAIT_MS
            /\ elapsed'[Monitor] = 0 /\ pc' = pc)

\* C19: a step of monitorTask appends all bytes of the UART receive queue to
\* readBuffer, emptying the queue, when monitorTask holds the semaphore, the
\* module is idle and the queue is not empty; every other step of
\* monitorTask (the take, a failed take, the give, a drain with the module
\* busy or the queue empty) leaves readBuffer and the queue as they are. No
\* step of monitorTask writes to the UART or changes the KEY pin.
C19_DrainFrame ==
    [][(started = "ready" /\ MonitorSteps)
        => /\ IF pc[Monitor] = "drain" /\ holds[Monitor] = 1 /\ ~isBuzy /\ Len(uart_rx) > 0
              THEN readBuffer' = readBuffer \o uart_rx /\ uart_rx' = ""
              ELSE readBuffer' = readBuffer /\ uart_rx' = uart_rx
           /\ uart_tx' = ""
           /\ key_pin' = key_pin]_vars

\* C19 witness: a pass that drained - bytes are in readBuffer, the UART queue
\* is empty and monitorTask is about to give the semaphore back.
C19_Witness ==
    /\ pc[Monitor] = "give"
    /\ holds[Monitor] = 1
    /\ readBuffer # ""
    /\ uart_rx = ""


-----------------------------------------------------------------------------
(* C20: the wait in write() *)

\* C20: the wait of write() goes on while the module is busy and ends only
\* with the module idle or with its deadline elapsed; so write() gives up
\* with 0 bytes only when the deadline has elapsed with the module busy.
C20_WaitsForIdle ==
    [][\A u \in Callers :
          (pc[u] = "busyWait" /\ pc'[u] = "busyChk")
              => (~isBuzy \/ elapsed[u] >= timeout_)]_vars


-----------------------------------------------------------------------------
(* C21: the KEY pin during a command's write *)

\* u is inside writeCommand(): past digitalWrite(key_pin_, LOW) and not yet
\* past digitalWrite(key_pin_, HIGH)
InWriteCommand(u) == pc[u] \in {"busyWait", "busyChk", "tx", "keyHigh"}

\* C21: whatever the interleaving of command calls and monitorTask passes,
\* the bytes of a command are written to the UART with the KEY pin LOW, the
\* pin stays LOW for as long as some call is inside writeCommand(), and it is
\* HIGH when none is.
C21_KeyLowWhileWriting ==
    /\ (uart_tx # "") => key_pin = "LOW"
    /\ (started = "ready")
       => IF \E u \in Callers : InWriteCommand(u)
          THEN key_pin = "LOW"
          ELSE key_pin = "HIGH"


-----------------------------------------------------------------------------
(* C22: a call that does not get the semaphore *)

\* the step leaves alone all that a call shares with the rest of the program
SharedUntouched ==
    /\ uart_tx' = ""
    /\ uart_rx' = uart_rx
    /\ key_pin' = key_pin
    /\ readBuffer' = readBuffer
    /\ sem' = sem
    /\ holds' = holds

\* C22: a call whose xSemaphoreTake fails after its full wait returns the
\* lock-timeout value of its operation ("ERROR SEMAPHORE: TIMEOUT", false
\* for resetDefault, the zero struct for getBasicParams); from its entry to
\* its return it has written nothing to the UART, read nothing from it,
\* left the KEY pin and readBuffer as they were and given no semaphore.
C22_LockTimeoutFrame ==
    [][\A u \in Callers :
          /\ (pc[u] = "idle" /\ pc'[u] = "take") => SharedUntouched
          /\ (pc[u] = "take" /\ pc'[u] = "done")
             => /\ elapsed[u] >= LOCK_WAIT_MS
                /\ sem = 0
                /\ SharedUntouched
                /\ rtn'[u] = IF op[u] = "resetDefault" THEN BoolRtn(FALSE)
                             ELSE IF op[u] = "getBasicParams" THEN ParamsRtn
                             ELSE StrRtn(LockTimeoutText)
                /\ info'[u] = ZeroInfo]_vars

\* C22 witness: c1 has returned "ERROR SEMAPHORE: TIMEOUT" while c2 holds the
\* semaphore inside writeCommand(), the KEY pin still LOW.
C22_Witness ==
    /\ pc["c1"] = "done"
    /\ rtn["c1"] = StrRtn(LockTimeoutText)
    /\ holds["c2"] = 1
    /\ sem = 0
    /\ pc["c2"] = "busyWait"
    /\ key_pin = "LOW"


-----------------------------------------------------------------------------
(* SpecBackToBack: getChannel() and then getSpeed(), one right after the    *)
(* other, made to a module that answers what it is sent, beside monitorTask *)

\* the calls, in their order
CallBackToBack ==
    \/ ncalls = 0 /\ Call("c1", "getChannel", NoArg)
    \/ ncalls = 1 /\ Call("c1", "getSpeed", NoArg)

NextBackToBack ==
    \/ Begin
    \/ CallBackToBack
    \/ \E u \in {"c1", Monitor} : TaskStep(u)
    \/ KeyLow("c1")
    \/ BusyWaitExit("c1")
    \/ BusyChk("c1")
    \/ Tx("c1")
    \/ KeyHigh("c1")
    \/ ExpLineRead("c1")
    \/ ExpLineTimeout("c1")
    \/ Return("c1")
    \/ MonDrain
    \/ StaToggle
    \/ ModuleEcho
    \/ Tick(TickSmall)

SpecBackToBack == Init /\ [][NextBackToBack]_vars

-----------------------------------------------------------------------------
(* C23: a reply's leftover bytes and the next command *)

\* the reply line the module gives to the command of u
OwnReply(u) == ReplyLine(CommandText(op[u], arg[u]))

\* the command of u has its _expectLine result, and the module has answered
\* it in time: the reply is the line read, or it is waiting in the UART
AnsweredInTime(u) ==
    /\ pc[u] = "give" /\ op[u] \in {"getChannel", "getSpeed"} /\ wres[u] > 0
    /\ eol[u]
    /\ line[u] = OwnReply(u) \/ Contains(uart_rx, OwnReply(u) \o CRLF)

\* C23: in getChannel() followed by getSpeed(), each answered by the module
\* with its own reply line and CR LF, each call returns the value of its own
\* reply; what the earlier reply left in the UART does not make the later
\* call fail.
C23_LeftoverDoesNotCorrupt ==
    \A u \in Callers :
        AnsweredInTime(u) => rtn[u] = StrRtn(Substring(OwnReply(u), 5))


-----------------------------------------------------------------------------
(* SpecParamsNoise: getBasicParams() to a module that answers "AT+RX" with  *)
(* its four lines in any order and one line of another kind among them, all *)
(* within the first per-line wait (no deadline is reached)                  *)

\* lines that start with none of the four prefixes
OtherLines == {"ERROR"}

\* the module sends a line of another kind, ended by CR LF
ModuleOther(l) ==
    /\ started = "ready"
    /\ \E u \in Callers : op[u] = "getBasicParams" /\ wres[u] > 0
    /\ \A i \in 1..Len(sent) : sent[i] # l
    /\ sent' = Append(sent, l)
    /\ uart_rx' = uart_rx \o l \o CRLF
    /\ uart_tx' = ""
    /\ UNCHANGED <<started, serial_, sem, key_pin, sta_pin, readBuffer, fed, printed,
                   pc, op, arg, line, wres, busy, eol, rtn, elapsed, elapsed2, linesGot,
                   info, holds, ncalls, nemit>>

NextParamsNoise ==
    \/ Begin
    \/ CallParams
    \/ Take("c1")
    \/ Give("c1")
    \/ KeyLow("c1")
    \/ BusyWaitExit("c1")
    \/ BusyChk("c1")
    \/ Tx("c1")
    \/ KeyHigh("c1")
    \/ ExpLineRead("c1")
    \/ Return("c1")
    \/ StaToggle
    \/ \E l \in ParamLines : ModuleLine(l)
    \/ \E l \in OtherLines : ModuleOther(l)

SpecParamsNoise == Init /\ [][NextParamsNoise]_vars

-----------------------------------------------------------------------------
(* C24: lines of another kind among the four *)

\* the module has sent a line of each of the four prefixes
AllFourSent ==
    \A p \in ParamPrefixes : \E k \in 1..Len(sent) : PrefixOf(sent[k]) = p

\* C24: when the module has sent all four parameter lines before
\* getBasicParams leaves its loop, every field of the result holds the number
\* of its line, also with a line of another kind sent among them: such a
\* line takes none of the four line counts.
C24_OtherLinesNotCounted ==
    (ParamsRead /\ AllFourSent)
    => \A k \in 1..Len(sent) :
          PrefixOf(sent[k]) \in ParamPrefixes
          => Field(info["c1"], PrefixOf(sent[k])) = LineValue(sent[k])

\* without a line of another kind the four lines are all read and decoded
C24_FourLinesAloneDecoded ==
    (ParamsRead /\ AllFourSent /\ Len(sent) = BASIC_PARAMS_LINES)
    => \A k \in 1..Len(sent) :
          Field(info["c1"], PrefixOf(sent[k])) = LineValue(sent[k])

=============================================================================
